---------------------------- MODULE Spec2Model ----------------------------
(***************************************************************************)
(* Model of the Cerebro AI backend (src/server.js, second listing, lines   *)
(* 366-1004): the handlers POST /api/adaptive/generate and                 *)
(* POST /api/language/speak as state machines whose steps are the await    *)
(* points of the handlers.                                                  *)
(*                                                                         *)
(* Texts are sequences of string parts.  JSON values are tagged records.   *)
(* Numbers are kept in hundredths (c = 100 * value), so that 0.49, 0.8 and  *)
(* 1.5 are representable.                                                   *)
(***************************************************************************)
EXTENDS Integers, Sequences, FiniteSets, TLC

(* ------------------------------ bounds -------------------------------- *)
MaxOptions == 5
MaxIndex == 4
MaxStreak == 3
MaxShort == 3
MaxHistory == 11
MaxTopicHistory == 7
MaxText == 4

(* --------------------------- JSON values ------------------------------ *)
Undefined == [t |-> "undefined"]
Null == [t |-> "null"]
Num(c) == [t |-> "num", c |-> c]
Bool(b) == [t |-> "bool", b |-> b]
Str(s) == [t |-> "str", s |-> s]
Arr(a) == [t |-> "arr", a |-> a]
Obj(o) == [t |-> "obj", o |-> o]

\* The three-backtick fence marker, as a part of a string.
FenceMark == "<fence>"

\* JavaScript truthiness of a JSON value (the operand of !).
Truthy(v) ==
    CASE v.t = "undefined" -> FALSE
      [] v.t = "null" -> FALSE
      [] v.t = "num" -> v.c # 0
      [] v.t = "bool" -> v.b
      [] v.t = "str" -> v.s # <<>>
      [] OTHER -> TRUE

\* Reading a property of null or undefined throws a TypeError.
Throws(v) == v.t = "null" \/ v.t = "undefined"

\* a || b
Or(a, b) == IF Truthy(a) THEN a ELSE b

\* v?.f
OptGet(v, f) ==
    IF v.t = "obj" /\ f \in DOMAIN v.o THEN v.o[f] ELSE [t |-> "undefined"]

\* v[i] for a zero-based index
Index(v, i) ==
    IF v.t = "arr" /\ i + 1 \in DOMAIN v.a THEN v.a[i + 1] ELSE [t |-> "undefined"]

Get(v, f) ==
    IF v.t = "obj" /\ f \in DOMAIN v.o THEN v.o[f] ELSE Undefined

IsArray(v) == v.t = "arr"

IsInteger(v) == v.t = "num" /\ v.c % 100 = 0

(* ------------------------------ errors -------------------------------- *)
NoError == [name |-> "none", message |-> <<>>]
Err(name, message) == [name |-> name, message |-> message]

\* error.toString()
ErrorToString(e) == <<e.name, ": ">> \o e.message

NoValue == <<"undefined">>

(* --------------------- provider text and stripping -------------------- *)
Ws == [k |-> "ws"]
Nl == [k |-> "nl"]
Fence == [k |-> "fence"]
Tick == [k |-> "tick"]
Tag(v) == [k |-> "tag", v |-> v]
Prose == [k |-> "prose"]
DocTok(d) == [k |-> "doc", d |-> d]

IsSpace(tok) == tok.k = "ws" \/ tok.k = "nl"

RECURSIVE TrimStart(_)
TrimStart(s) ==
    IF s # <<>> /\ IsSpace(Head(s)) THEN TrimStart(Tail(s)) ELSE s

RECURSIVE TrimEnd(_)
TrimEnd(s) ==
    IF s # <<>> /\ IsSpace(s[Len(s)]) THEN TrimEnd(SubSeq(s, 1, Len(s) - 1)) ELSE s

\* String.prototype.trim
Trim(s) == TrimEnd(TrimStart(s))

\* The fence marker removed from inside the strings of a document: the
\* replacements are global over the characters of the text.
RECURSIVE StripValue(_)
StripValue(v) ==
    CASE v.t = "str" -> Str(SelectSeq(v.s, LAMBDA c : c # FenceMark))
      [] v.t = "arr" -> Arr([i \in DOMAIN v.a |-> StripValue(v.a[i])])
      [] v.t = "obj" -> Obj([f \in DOMAIN v.o |-> StripValue(v.o[f])])
      [] OTHER -> v

StripTok(tok) == IF tok.k = "doc" THEN DocTok(StripValue(tok.d)) ELSE tok

\* A text as the replace patterns see it: a fence marker is three
\* backticks in a row.
RECURSIVE Expand(_)
Expand(s) ==
    IF s = <<>> THEN <<>>
    ELSE IF Head(s).k = "fence" THEN <<Tick, Tick, Tick>> \o Expand(Tail(s))
    ELSE <<Head(s)>> \o Expand(Tail(s))

StartsWithFence(s) ==
    Len(s) >= 3 /\ s[1].k = "tick" /\ s[2].k = "tick" /\ s[3].k = "tick"

\* First replace: three backticks directly followed by the tag json and an
\* optional newline are removed, globally.
RECURSIVE ReplaceJsonFence(_)
ReplaceJsonFence(s) ==
    IF s = <<>> THEN <<>>
    ELSE IF StartsWithFence(s) /\ Len(s) >= 4 /\ s[4] = Tag("json")
         THEN IF Len(s) >= 5 /\ s[5].k = "nl"
              THEN ReplaceJsonFence(SubSeq(s, 6, Len(s)))
              ELSE ReplaceJsonFence(SubSeq(s, 5, Len(s)))
         ELSE <<Head(s)>> \o ReplaceJsonFence(Tail(s))

\* Second replace: three backticks and an optional newline are removed,
\* globally.
RECURSIVE ReplaceFence(_)
ReplaceFence(s) ==
    IF s = <<>> THEN <<>>
    ELSE IF StartsWithFence(s)
         THEN IF Len(s) >= 4 /\ s[4].k = "nl"
              THEN ReplaceFence(SubSeq(s, 5, Len(s)))
              ELSE ReplaceFence(SubSeq(s, 4, Len(s)))
         ELSE <<StripTok(Head(s))>> \o ReplaceFence(Tail(s))

\* The replaces without the g flag: the first match only.
RECURSIVE ReplaceFirstJsonFence(_)
ReplaceFirstJsonFence(s) ==
    IF s = <<>> THEN <<>>
    ELSE IF StartsWithFence(s) /\ Len(s) >= 4 /\ s[4] = Tag("json")
         THEN IF Len(s) >= 5 /\ s[5].k = "nl"
              THEN SubSeq(s, 6, Len(s))
              ELSE SubSeq(s, 5, Len(s))
         ELSE <<Head(s)>> \o ReplaceFirstJsonFence(Tail(s))

RECURSIVE ReplaceFirstFence(_)
ReplaceFirstFence(s) ==
    IF s = <<>> THEN <<>>
    ELSE IF StartsWithFence(s)
         THEN IF Len(s) >= 4 /\ s[4].k = "nl"
              THEN SubSeq(s, 5, Len(s))
              ELSE SubSeq(s, 4, Len(s))
         ELSE <<Head(s)>> \o ReplaceFirstFence(Tail(s))

JsonContentFirstMatchOnly(aiText) ==
    Trim(ReplaceFirstFence(ReplaceFirstJsonFence(Expand(aiText))))

\* jsonContent
JsonContent(aiText) == Trim(ReplaceFence(ReplaceJsonFence(Expand(aiText))))

TokName(tok) == IF tok.k = "tag" THEN tok.v ELSE tok.k

\* JSON.parse: the text must be one document, surrounding white space
\* allowed; the SyntaxError message quotes the offending part of the text.
JsonParse(s) ==
    LET body == Trim(s) IN
    IF Len(body) = 1 /\ body[1].k = "doc"
    THEN [ok |-> TRUE, value |-> body[1].d, error |-> NoError]
    ELSE [ok |-> FALSE, value |-> Undefined,
          error |-> Err("SyntaxError",
                        IF body = <<>> THEN <<"Unexpected end of JSON input">>
                        ELSE IF body[1].k = "doc"
                             THEN <<"Unexpected token after JSON: ", TokName(body[2])>>
                             ELSE <<"Unexpected token ", TokName(body[1])>>)]

\* The required-field check that throws "Invalid question format from AI".
InvalidQuestionFormatNoIndex(q) ==
    \/ ~Truthy(Get(q, "question"))
    \/ ~IsArray(Get(q, "options"))

InvalidQuestionFormat(q) ==
    \/ ~Truthy(Get(q, "question"))
    \/ ~IsArray(Get(q, "options"))
    \/ Get(q, "correctIndex").t = "undefined"

\* The try block of the parse step: strip, JSON.parse, required fields.
TryParse(aiText) ==
    LET parsed == JsonParse(JsonContent(aiText)) IN
    IF ~parsed.ok
    THEN [ok |-> FALSE, questionData |-> Undefined, parseError |-> parsed.error]
    ELSE IF Throws(parsed.value)
    THEN [ok |-> FALSE, questionData |-> Undefined,
          parseError |-> Err("TypeError", <<"Cannot read properties of null (reading question)">>)]
    ELSE IF InvalidQuestionFormat(parsed.value)
    THEN [ok |-> FALSE, questionData |-> Undefined,
          parseError |-> Err("Error", <<"Invalid question format from AI">>)]
    ELSE [ok |-> TRUE, questionData |-> parsed.value, parseError |-> NoError]

\* The catch of the parse step replaces whatever was thrown.
RethrowParseError(parseError) == parseError

ParseCatch(parseError) == Err("Error", <<"AI generated invalid response format">>)

(* ------------------------- adaptive difficulty ------------------------ *)
GreaterThan(v, c) == v.t = "num" /\ v.c > c
LessThan(v, c) == v.t = "num" /\ v.c < c
AtLeast(v, c) == v.t = "num" /\ v.c >= c

AvgAccuracy(performance) == Or(OptGet(performance, "accuracy"), Num(50))

Streak(performance) == Or(OptGet(performance, "streak"), Num(0))

TargetDifficulty(acc, str) ==
    IF GreaterThan(acc, 80) /\ AtLeast(str, 300) THEN "dificil"
    ELSE IF LessThan(acc, 50) \/ LessThan(str, 0) THEN "facil"
    ELSE "medio"

competencyMap ==
    [Matematicas |->
        [facil |-> "STEM - Resolucion de problemas basicos",
         medio |-> "STEM - Razonamiento matematico aplicado",
         dificil |-> "STEM - Modelizacion y pensamiento abstracto"],
     Lengua |->
        [facil |-> "CCL - Comprension lectora basica",
         medio |-> "CCL - Analisis textual y expresion",
         dificil |-> "CCL - Interpretacion critica y argumentacion"],
     Ciencias |->
        [facil |-> "CCL - Conocimiento cientifico basico",
         medio |-> "STEM - Metodo cientifico y experimentacion",
         dificil |-> "STEM - Analisis cientifico avanzado"],
     Historia |->
        [facil |-> "CC - Conocimiento historico fundamental",
         medio |-> "CC - Analisis de procesos historicos",
         dificil |-> "CC - Pensamiento historico critico"],
     Ingles |->
        [facil |-> "CCL - Comprension basica de ingles",
         medio |-> "CCL - Comunicacion en ingles aplicada",
         dificil |-> "CCL - Dominio avanzado del ingles"]]

LomloeCompetency(subject, difficulty) ==
    IF subject.t = "str" /\ Len(subject.s) = 1 /\ subject.s[1] \in DOMAIN competencyMap
    THEN competencyMap[subject.s[1]][difficulty]
    ELSE "Competencia general"

AdaptiveReason(acc) ==
    IF GreaterThan(acc, 80) THEN "Alto rendimiento - aumentando dificultad"
    ELSE IF LessThan(acc, 50) THEN "Bajo rendimiento - reduciendo dificultad"
    ELSE "Rendimiento estable - manteniendo nivel"

(* ------------------------------ state --------------------------------- *)
VARIABLES
    env,              \* process.env, fixed for the life of the process
    endpoint,         \* the route of the request in progress
    pc,               \* position of the handler
    req,              \* req.body
    avgAccuracy,      \* locals of the generate handler
    streak,
    targetDifficulty,
    lomloeCompetency,
    providerCalls,    \* fetch calls issued by the request in progress
    aiContent,        \* the provider text, trimmed
    caught,           \* the error bound by the outer catch
    res,              \* the response sent
    exit,             \* the statement that sent the response
    lastRejected      \* the response of the latest earlier rejected payload

vars == <<env, endpoint, pc, req, avgAccuracy, streak, targetDifficulty,
          lomloeCompetency, providerCalls, aiContent, caught, res, exit,
          lastRejected>>

NoResponse == [status |-> 0, body |-> [success |-> FALSE]]
NoText == <<[k |-> "none"]>>
NoRejection == [cause |-> "none", res |-> NoResponse]

locals == <<avgAccuracy, streak, targetDifficulty, lomloeCompetency>>

(* ------------------------------ inputs -------------------------------- *)
NodeEnvs == {"production", "development"}
Keys == {Undefined, Str(<<"sk-key">>)}

Levels == {Undefined, Str(<<>>), Str(<<"ESO">>)}
Subjects == {Undefined, Str(<<"Matematicas">>), Str(<<"Arte">>)}

Accuracies == {Undefined, Num(0), Num(49), Num(50), Num(80), Num(81)}
Streaks == {Undefined} \cup {Num(100 * k) : k \in {-1, 0, MaxStreak - 1, MaxStreak}}

PresentFields(r) == {f \in DOMAIN r : r[f].t # "undefined"}

\* An object literal with the absent fields left out.
MakeObj(r) == Obj([f \in PresentFields(r) |-> r[f]])

Performances ==
    {Undefined} \cup
    {MakeObj([accuracy |-> a, streak |-> s]) : a \in Accuracies, s \in Streaks}

GenerateBodies ==
    {[level |-> l, subject |-> s, performance |-> p] :
        l \in Levels, s \in Subjects, p \in Performances}

\* Provider payloads: the documents a completion may carry.
QuestionChoices == {Undefined, Str(<<>>), Str(<<"Q">>), Str(<<FenceMark>>)}

OptionsOfLength(n) == Arr([i \in 1 .. n |-> Str(<<"option">>)])

OptionsChoices ==
    {Undefined, Str(<<"A, B, C, D">>)} \cup
    {OptionsOfLength(n) : n \in 3 .. MaxOptions}

CorrectIndexChoices ==
    {Undefined, Null, Num(150)} \cup {Num(100 * i) : i \in {-1, 0, MaxIndex - 1, MaxIndex}}

OptionalFields == {"explanation", "difficulty", "lomloeCompetency", "topic"}

QuestionFields == {"question", "options", "correctIndex"} \cup OptionalFields

MissingChoices == {{}} \cup {{f} : f \in OptionalFields}

MakeDoc(q, o, c, missing) ==
    MakeObj([question |-> q, options |-> o, correctIndex |-> c,
             explanation |-> IF "explanation" \in missing THEN Undefined ELSE Str(<<"E">>),
             difficulty |-> IF "difficulty" \in missing THEN Undefined ELSE Str(<<"medio">>),
             lomloeCompetency |-> IF "lomloeCompetency" \in missing THEN Undefined ELSE Str(<<"C">>),
             topic |-> IF "topic" \in missing THEN Undefined ELSE Str(<<"T">>)])

GoodDoc == MakeDoc(Str(<<"Q">>), OptionsOfLength(4), Num(0), {})

ObjectDocs ==
    {MakeDoc(q, o, c, {}) : q \in QuestionChoices, o \in OptionsChoices,
                            c \in CorrectIndexChoices}
    \cup {MakeDoc(Str(<<"Q">>), OptionsOfLength(4), Num(0), m) : m \in MissingChoices}

Docs == ObjectDocs \cup {Null, Num(500), Arr(<<>>)}

WrappedDocs == {GoodDoc, MakeDoc(Str(<<"Q">>), OptionsOfLength(4), Undefined, {})}

\* What a provider puts around a document: <<before, after>>.
Wrappers ==
    {<< <<Fence, Tag("json"), Nl>>, <<Nl, Fence>> >>,
     << <<Fence, Nl>>, <<Nl, Fence>> >>,
     << <<Fence, Tag("js"), Nl>>, <<Nl, Fence>> >>,
     << <<Fence, Tag("json"), Nl>>, <<>> >>,
     << <<Prose, Nl>>, <<>> >>,
     << <<Ws>>, <<Nl>> >>}

ProviderTexts ==
    {<<DocTok(d)>> : d \in Docs}
    \cup {w[1] \o <<DocTok(d)>> \o w[2] : w \in Wrappers, d \in WrappedDocs}
    \cup {<<>>, <<Prose>>, <<Fence, Nl, Fence>>}

Text(toks) == [t |-> "text", toks |-> toks]

Completion(content) ==
    Obj([choices |-> Arr(<<Obj([message |-> Obj([content |-> content])])>>)])

\* Bodies of a provider reply with a success status.
InvalidBody == [t |-> "invalid"]

ProviderBodies ==
    {InvalidBody, Obj([error |-> Str(<<"overloaded">>)]), Obj([choices |-> Arr(<<>>)]),
     Completion(Null)}
    \cup {Completion(Text(x)) : x \in ProviderTexts}

StatusTexts == {<<"Unauthorized">>, <<"Too Many Requests">>}

NetworkError == Err("FetchError", <<"request to provider failed, reason: ECONNREFUSED">>)

\* const aiContent = data.choices[0].message.content.trim()
ReadContent(data) ==
    LET choices == Get(data, "choices")
        first == Index(choices, 0)
        message == Get(first, "message")
        content == Get(message, "content")
        fail(what) == [ok |-> FALSE, text |-> NoText,
                       error |-> Err("TypeError", <<"Cannot read properties of undefined, reading ", what>>)]
    IN  IF data.t = "invalid"
        THEN [ok |-> FALSE, text |-> NoText,
              error |-> Err("FetchError", <<"invalid json response body">>)]
        ELSE IF Throws(choices) THEN fail("0")
        ELSE IF Throws(first) THEN fail("message")
        ELSE IF Throws(message) THEN fail("content")
        ELSE IF Throws(content) THEN fail("trim")
        ELSE IF content.t # "text" THEN fail("trim is not a function")
        ELSE [ok |-> TRUE, text |-> Trim(content.toks), error |-> NoError]

(* --------------------------- recent topics ---------------------------- *)
\* array.slice(-k)
SliceLast(a, k) == SubSeq(a, IF Len(a) > k THEN Len(a) - k + 1 ELSE 1, Len(a))

\* questionHistory.slice(-5)
TopicWindow == 5

\* parts.join(', ')
RECURSIVE Join(_)
Join(parts) ==
    IF parts = <<>> THEN <<>>
    ELSE IF Len(parts) = 1 THEN Head(parts).s
    ELSE Head(parts).s \o <<", ">> \o Join(Tail(parts))

TopicsOf(records) == [i \in DOMAIN records |-> Get(records[i], "topic")]

\* The filter applied before the window.
RecentTopicsFilterFirst(questionHistory) ==
    IF Truthy(questionHistory)
    THEN Join(SliceLast(SelectSeq(TopicsOf(questionHistory.a), Truthy), TopicWindow))
    ELSE <<>>

\* recentTopics
RecentTopics(questionHistory) ==
    IF Truthy(questionHistory)
    THEN Join(SelectSeq(TopicsOf(SliceLast(questionHistory.a, TopicWindow)), Truthy))
    ELSE <<>>

(* --------------------- POST /api/adaptive/generate -------------------- *)
MissingRequiredLevelOnly(body) == ~Truthy(body.level)

MissingRequired(body) == ~Truthy(body.level) \/ ~Truthy(body.subject)

BadRequest ==
    [status |-> 400,
     body |-> [success |-> FALSE,
               error |-> <<"Missing required fields: level and subject">>,
               details |-> NoValue]]

KeyNotConfigured ==
    [status |-> 500,
     body |-> [success |-> FALSE,
               error |-> <<"API key not configured. Please set OPENROUTER_API_KEY environment variable.">>,
               details |-> NoValue]]

\* The outer catch.
GenerateCatch(error, nodeEnv) ==
    [status |-> 500,
     body |-> [success |-> FALSE,
               error |-> IF error.message # <<>> THEN error.message
                         ELSE <<"Error generating adaptive content">>,
               details |-> IF nodeEnv = "development" THEN ErrorToString(error)
                           ELSE NoValue]]

GenerateOk(questionData, difficulty, acc) ==
    [status |-> 200,
     body |-> [success |-> TRUE,
               question |-> questionData,
               metadata |-> [aiModel |-> "claude-3.5-sonnet",
                             targetDifficulty |-> difficulty,
                             adaptiveReason |-> AdaptiveReason(acc)]]]

Respond(response, by, error) ==
    /\ res' = response
    /\ exit' = by
    /\ caught' = error
    /\ pc' = "done"

GenerateReceive(body) ==
    /\ pc = "idle"
    /\ endpoint' = "generate"
    /\ req' = body
    /\ UNCHANGED <<env, lastRejected, aiContent>>
    /\ IF MissingRequired(body)
       THEN /\ Respond(BadRequest, "badRequest", NoError)
            /\ UNCHANGED <<locals, providerCalls>>
       ELSE IF ~Truthy(env.OPENROUTER_API_KEY)
       THEN /\ Respond(KeyNotConfigured, "noKey", NoError)
            /\ UNCHANGED <<locals, providerCalls>>
       ELSE /\ avgAccuracy' = AvgAccuracy(body.performance)
            /\ streak' = Streak(body.performance)
            /\ targetDifficulty' = TargetDifficulty(avgAccuracy', streak')
            /\ lomloeCompetency' = LomloeCompetency(body.subject, targetDifficulty')
            /\ providerCalls' = providerCalls + 1
            /\ pc' = "awaitFetch"
            /\ UNCHANGED <<res, exit, caught>>

\* fetch rejects: the outer catch answers.
GenerateFetchThrows ==
    /\ endpoint = "generate" /\ pc = "awaitFetch"
    /\ Respond(GenerateCatch(NetworkError, env.NODE_ENV), "fetchError", NetworkError)
    /\ UNCHANGED <<env, endpoint, req, locals, providerCalls, aiContent, lastRejected>>

\* A retry of a failed provider call.
GenerateFetchNotOkRetry(statusText, textFails) ==
    /\ endpoint = "generate" /\ pc = "awaitFetch"
    /\ providerCalls' = providerCalls + 1
    /\ LET error == Err("Error", <<"OpenRouter API failed: ">> \o statusText)
       IN  Respond(GenerateCatch(error, env.NODE_ENV), "upstreamError", error)
    /\ UNCHANGED <<env, endpoint, req, locals, aiContent, lastRejected>>

\* The provider answers with a non-success status.
GenerateFetchNotOk(statusText, textFails) ==
    /\ endpoint = "generate" /\ pc = "awaitFetch"
    /\ LET error == IF textFails THEN NetworkError
                    ELSE Err("Error", <<"OpenRouter API failed: ">> \o statusText)
       IN  Respond(GenerateCatch(error, env.NODE_ENV), "upstreamError", error)
    /\ UNCHANGED <<env, endpoint, req, locals, providerCalls, aiContent, lastRejected>>

\* The provider answers with a success status and the body data.
GenerateFetchOk(data) ==
    /\ endpoint = "generate" /\ pc = "awaitFetch"
    /\ LET content == ReadContent(data) IN
       IF ~content.ok
       THEN /\ Respond(GenerateCatch(content.error, env.NODE_ENV), "bodyError", content.error)
            /\ UNCHANGED aiContent
       ELSE LET parse == TryParse(content.text) IN
            /\ aiContent' = content.text
            /\ IF ~parse.ok
               THEN Respond(GenerateCatch(ParseCatch(parse.parseError), env.NODE_ENV),
                            IF parse.parseError.name = "SyntaxError"
                            THEN "rejectedSyntax" ELSE "rejectedSchema",
                            ParseCatch(parse.parseError))
               ELSE Respond(GenerateOk(parse.questionData, targetDifficulty, avgAccuracy),
                            "accepted", NoError)
    /\ UNCHANGED <<env, endpoint, req, locals, providerCalls, lastRejected>>

(* ---------------------- POST /api/language/speak ---------------------- *)
SpeakTexts ==
    {Undefined, Null, Str(<<>>), Num(0), Bool(FALSE), Str(<<"Hola">>), Num(500)}
SpeakVoices == {Undefined, Str(<<"alloy">>)}

SpeakBodies == {[text |-> x, voice |-> v] : x \in SpeakTexts, v \in SpeakVoices}

\* arrayBuffer() of the provider reply: rejected, or the audio bytes.
AudioBuffers == {[ok |-> FALSE, size |-> 0], [ok |-> TRUE, size |-> 2048]}

TextRequired ==
    [status |-> 400,
     body |-> [success |-> FALSE, error |-> <<"Text is required">>]]

NativeSpeech(message) ==
    [status |-> 200,
     body |-> [success |-> TRUE, audioUrl |-> Null, useNativeSpeech |-> TRUE,
               message |-> message]]

SpeakCatchHard(error) ==
    [status |-> 500,
     body |-> [success |-> FALSE, audioUrl |-> Null, useNativeSpeech |-> TRUE,
               message |-> error.message]]

\* The catch of the speak handler.
SpeakCatch(error) == NativeSpeech(<<"Error - using browser fallback">>)

SpeakOk(voice, audio) ==
    [status |-> 200,
     body |-> [success |-> TRUE,
               audioUrl |-> Str(<<"data:audio/mp3;base64,", "audio">>),
               useNativeSpeech |-> FALSE,
               provider |-> "openai",
               voice |-> voice,
               size |-> audio.size]]

SpeakReceive(body) ==
    /\ pc = "idle"
    /\ endpoint' = "speak"
    /\ req' = body
    /\ UNCHANGED <<env, lastRejected, aiContent, locals>>
    /\ IF ~Truthy(body.text)
       THEN /\ Respond(TextRequired, "textRequired", NoError)
            /\ UNCHANGED providerCalls
       ELSE IF body.text.t # "str"
       THEN LET error == Err("TypeError", <<"text.substring is not a function">>) IN
            /\ Respond(SpeakCatch(error), "catch", error)
            /\ UNCHANGED providerCalls
       ELSE IF ~Truthy(Or(env.OPENAI_API_KEY, env.OPENROUTER_API_KEY))
       THEN /\ Respond(NativeSpeech(<<"No API key - using browser speech">>), "noKey", NoError)
            /\ UNCHANGED providerCalls
       ELSE /\ providerCalls' = providerCalls + 1
            /\ pc' = "awaitFetch"
            /\ UNCHANGED <<res, exit, caught>>

SpeakFetchThrows ==
    /\ endpoint = "speak" /\ pc = "awaitFetch"
    /\ Respond(SpeakCatch(NetworkError), "catch", NetworkError)
    /\ UNCHANGED <<env, endpoint, req, locals, providerCalls, aiContent, lastRejected>>

SpeakFetchNotOk(textFails) ==
    /\ endpoint = "speak" /\ pc = "awaitFetch"
    /\ IF textFails
       THEN Respond(SpeakCatch(NetworkError), "catch", NetworkError)
       ELSE Respond(NativeSpeech(<<"OpenAI TTS failed - using browser fallback">>),
                    "upstreamError", NoError)
    /\ UNCHANGED <<env, endpoint, req, locals, providerCalls, aiContent, lastRejected>>

SpeakFetchOk(audio) ==
    /\ endpoint = "speak" /\ pc = "awaitFetch"
    /\ IF ~audio.ok
       THEN Respond(SpeakCatch(NetworkError), "catch", NetworkError)
       ELSE Respond(SpeakOk(Or(req.voice, Str(<<"nova">>)), audio), "accepted", NoError)
    /\ UNCHANGED <<env, endpoint, req, locals, providerCalls, aiContent, lastRejected>>

(* -------------------- POST /api/adaptive/analytics -------------------- *)
Tiers == <<"facil", "medio", "dificil">>

\* history.slice(-10)
LearningWindow == 10

\* Math.round of the quotient num / den of two naturals, den > 0.
RoundHalfUp(num, den) == (2 * num + den) \div (2 * den)

IsCorrect(q) == Truthy(Get(q, "correct"))

\* history.filter(q => q.correct).length
CorrectCount(h) == Cardinality({i \in DOMAIN h : IsCorrect(h[i])})

\* The switch over q.difficulty.
DifficultyWeight(q) ==
    LET d == Get(q, "difficulty") IN
    IF d = Str(<<"facil">>) THEN 1
    ELSE IF d = Str(<<"medio">>) THEN 2
    ELSE IF d = Str(<<"dificil">>) THEN 3
    ELSE 2

RECURSIVE SumWeights(_)
SumWeights(h) ==
    IF h = <<>> THEN 0 ELSE DifficultyWeight(Head(h)) + SumWeights(Tail(h))

\* const diff = q.difficulty || 'medio'
DiffOf(q) == Or(Get(q, "difficulty"), Str(<<"medio">>))

\* byDifficulty[diff] is defined
KnownDiff(d) == \E i \in DOMAIN Tiers : d = Str(<<Tiers[i]>>)

ByDifficulty(h) ==
    [tier \in {Tiers[i] : i \in DOMAIN Tiers} |->
        [correct |-> Cardinality({i \in DOMAIN h :
                        DiffOf(h[i]) = Str(<<tier>>) /\ IsCorrect(h[i])}),
         total |-> Cardinality({i \in DOMAIN h : DiffOf(h[i]) = Str(<<tier>>)})]]

IsStrengthStrict(stats) ==
    stats.total > 0 /\ 100 * stats.correct > 75 * stats.total

\* acc >= 75
IsStrength(stats) ==
    stats.total > 0 /\ 100 * stats.correct >= 75 * stats.total

\* acc < 50
IsImprovement(stats) ==
    stats.total > 0 /\ 100 * stats.correct < 50 * stats.total

Area(by, tier) ==
    [level |-> tier,
     accuracy |-> IF by[tier].total > 0
                  THEN RoundHalfUp(100 * by[tier].correct, by[tier].total) ELSE 0]

StrengthAreas(by) ==
    LET picked == SelectSeq(Tiers, LAMBDA tier : IsStrength(by[tier]))
    IN  [i \in DOMAIN picked |-> Area(by, picked[i])]

ImprovementAreas(by) ==
    LET picked == SelectSeq(Tiers, LAMBDA tier : IsImprovement(by[tier]))
    IN  [i \in DOMAIN picked |-> Area(by, picked[i])]

LearningCurve(h) ==
    LET recent == SliceLast(h, LearningWindow) IN
    [idx \in DOMAIN recent |->
        [question |-> idx,
         correct |-> IF IsCorrect(recent[idx]) THEN 1 ELSE 0,
         difficulty |-> Get(recent[idx], "difficulty")]]

\* The loop from the last record backward.
RECURSIVE CurrentStreak(_)
CurrentStreak(h) ==
    IF h = <<>> THEN 0
    ELSE IF IsCorrect(h[Len(h)]) THEN 1 + CurrentStreak(SubSeq(h, 1, Len(h) - 1))
    ELSE 0

\* avgDifficulty.toFixed(1), in tenths
Fixed1(tenths) == [t |-> "fixed1", tenths |-> tenths]

EmptyAnalytics ==
    [status |-> 200,
     body |-> [success |-> TRUE,
               analytics |-> [totalQuestions |-> 0,
                              accuracy |-> 0,
                              averageDifficulty |-> Num(0),
                              strengthAreas |-> <<>>,
                              improvementAreas |-> <<>>,
                              learningCurve |-> <<>>]]]

Accuracy(h) == RoundHalfUp(100 * CorrectCount(h), Len(h))

AnalyticsOk(h) ==
    [status |-> 200,
     body |-> [success |-> TRUE,
               analytics |-> [totalQuestions |-> Len(h),
                              accuracy |-> Accuracy(h),
                              correct |-> CorrectCount(h),
                              incorrect |-> Len(h) - CorrectCount(h),
                              averageDifficulty |->
                                  Fixed1(RoundHalfUp(10 * SumWeights(h), Len(h))),
                              byDifficulty |-> ByDifficulty(h),
                              strengthAreas |-> StrengthAreas(ByDifficulty(h)),
                              improvementAreas |-> ImprovementAreas(ByDifficulty(h)),
                              learningCurve |-> LearningCurve(h),
                              currentStreak |-> CurrentStreak(h)]]]

AnalyticsCatch(error) ==
    [status |-> 500, body |-> [success |-> FALSE, error |-> error.message]]

IsEmptyHistoryLengthOnly(history) == history.t = "arr" /\ history.a = <<>>

\* !history || history.length === 0
IsEmptyHistory(history) ==
    ~Truthy(history) \/ (history.t = "arr" /\ history.a = <<>>)

AnalyticsReceive(body) ==
    /\ pc = "idle"
    /\ endpoint' = "analytics"
    /\ req' = body
    /\ UNCHANGED <<env, lastRejected, aiContent, locals, providerCalls>>
    /\ IF IsEmptyHistory(body.history)
       THEN Respond(EmptyAnalytics, "emptyHistory", NoError)
       ELSE IF body.history.t # "arr"
       THEN LET error == Err("TypeError", <<"history.filter is not a function">>)
            IN  Respond(AnalyticsCatch(error), "catch", error)
       ELSE IF \E i \in DOMAIN body.history.a : ~KnownDiff(DiffOf(body.history.a[i]))
       THEN LET error == Err("TypeError",
                             <<"Cannot read properties of undefined (reading total)">>)
            IN  Respond(AnalyticsCatch(error), "catch", error)
       ELSE Respond(AnalyticsOk(body.history.a), "accepted", NoError)

HistoryRecord(correct, difficulty) ==
    MakeObj([correct |-> Bool(correct), difficulty |-> difficulty])

RecordDifficulties ==
    {Undefined, Str(<<"experto">>)} \cup {Str(<<Tiers[i]>>) : i \in DOMAIN Tiers}

HistoryRecords ==
    {HistoryRecord(c, d) : c \in BOOLEAN, d \in RecordDifficulties}

\* Every history of up to MaxShort records.
ShortHistories ==
    UNION {[1 .. n -> HistoryRecords] : n \in 1 .. MaxShort}

\* Longer histories: every pattern of answers, the difficulty of a record
\* following its position.
LongHistories ==
    UNION {{[i \in 1 .. n |-> HistoryRecord(bits[i], Str(<<Tiers[(i % 3) + 1]>>))] :
                bits \in [1 .. n -> BOOLEAN]} : n \in (MaxShort + 1) .. MaxHistory}

AnalyticsBodies ==
    {[history |-> h] : h \in {Undefined, Null, Arr(<<>>)}}
    \cup {[history |-> Arr(h)] : h \in ShortHistories \cup LongHistories}

(* --------------------------- the server ------------------------------- *)
IsRejection(by) == by \in {"rejectedSyntax", "rejectedSchema"}

\* The handler has returned; the server takes the next request.
Finish ==
    /\ pc = "done"
    /\ pc' = "idle"
    /\ endpoint' = "none"
    /\ req' = Undefined
    /\ avgAccuracy' = Undefined
    /\ streak' = Undefined
    /\ targetDifficulty' = "none"
    /\ lomloeCompetency' = "none"
    /\ providerCalls' = 0
    /\ aiContent' = NoText
    /\ caught' = NoError
    /\ res' = NoResponse
    /\ exit' = "none"
    /\ lastRejected' = IF endpoint = "generate" /\ IsRejection(exit)
                       THEN [cause |-> exit, res |-> res]
                       ELSE lastRejected
    /\ UNCHANGED env

Init ==
    /\ env \in [NODE_ENV : NodeEnvs, OPENROUTER_API_KEY : Keys, OPENAI_API_KEY : Keys]
    /\ endpoint = "none"
    /\ pc = "idle"
    /\ req = Undefined
    /\ avgAccuracy = Undefined
    /\ streak = Undefined
    /\ targetDifficulty = "none"
    /\ lomloeCompetency = "none"
    /\ providerCalls = 0
    /\ aiContent = NoText
    /\ caught = NoError
    /\ res = NoResponse
    /\ exit = "none"
    /\ lastRejected = NoRejection

Next ==
    \/ \E body \in GenerateBodies : GenerateReceive(body)
    \/ GenerateFetchThrows
    \/ \E statusText \in StatusTexts, textFails \in BOOLEAN :
          GenerateFetchNotOk(statusText, textFails)
    \/ \E data \in ProviderBodies : GenerateFetchOk(data)
    \/ \E body \in SpeakBodies : SpeakReceive(body)
    \/ SpeakFetchThrows
    \/ \E textFails \in BOOLEAN : SpeakFetchNotOk(textFails)
    \/ \E audio \in AudioBuffers : SpeakFetchOk(audio)
    \/ Finish

Spec == Init /\ [][Next]_vars

\* The analytics route alone; it reads neither the environment nor a key.
InitAnalytics ==
    /\ Init
    /\ env = [NODE_ENV |-> "production", OPENROUTER_API_KEY |-> Str(<<"sk-key">>),
              OPENAI_API_KEY |-> Undefined]

NextAnalytics ==
    \/ \E body \in AnalyticsBodies : AnalyticsReceive(body)
    \/ Finish

SpecAnalytics == InitAnalytics /\ [][NextAnalytics]_vars

\* The recent-topics step of the generate handler on its own: req holds the
\* body, res the string built.
TopicName(i) == <<"T1", "T2", "T3", "T4", "T5", "T6", "T7", "T8", "T9">>[i]

TopicRecord(i, kind) ==
    MakeObj([topic |-> CASE kind = "named" -> Str(<<TopicName(i)>>)
                         [] kind = "empty" -> Str(<<>>)
                         [] OTHER -> Undefined,
             correct |-> Bool(TRUE)])

TopicHistories ==
    UNION {{[i \in 1 .. n |-> TopicRecord(i, kinds[i])] :
                kinds \in [1 .. n -> {"named", "empty", "absent"}]} :
           n \in 0 .. MaxTopicHistory}

TopicBodies ==
    {[questionHistory |-> Undefined], [questionHistory |-> Null]}
    \cup {[questionHistory |-> Arr(h)] : h \in TopicHistories}

TopicsReceive(body) ==
    /\ pc = "idle"
    /\ endpoint' = "topics"
    /\ req' = body
    /\ pc' = "built"
    /\ res' = RecentTopics(body.questionHistory)
    /\ UNCHANGED <<env, lastRejected, aiContent, locals, providerCalls, caught, exit>>

TopicsReset ==
    /\ endpoint = "topics" /\ pc = "built"
    /\ pc' = "idle"
    /\ endpoint' = "none"
    /\ req' = Undefined
    /\ res' = NoResponse
    /\ UNCHANGED <<env, lastRejected, aiContent, locals, providerCalls, caught, exit>>

NextTopics ==
    \/ \E body \in TopicBodies : TopicsReceive(body)
    \/ TopicsReset

SpecTopics == InitAnalytics /\ [][NextTopics]_vars

\* The strip step of the generate handler on its own: req holds a provider
\* text, aiContent the text stripped once, res the text stripped twice.
StripAlphabet == {Tick, Fence, Tag("json"), Nl, Ws, Prose, DocTok(GoodDoc)}

StripTexts == UNION {[1 .. n -> StripAlphabet] : n \in 0 .. MaxText}

\* trim, the two replaces, trim
StripStep(text) == JsonContent(Trim(text))

StripOnce(text) ==
    /\ pc = "idle"
    /\ endpoint' = "strip"
    /\ req' = text
    /\ pc' = "once"
    /\ aiContent' = StripStep(text)
    /\ UNCHANGED <<env, lastRejected, locals, providerCalls, caught, exit, res>>

StripTwice ==
    /\ endpoint = "strip" /\ pc = "once"
    /\ pc' = "twice"
    /\ res' = StripStep(aiContent)
    /\ UNCHANGED <<env, endpoint, req, lastRejected, aiContent, locals,
                   providerCalls, caught, exit>>

StripReset ==
    /\ endpoint = "strip" /\ pc = "twice"
    /\ pc' = "idle"
    /\ endpoint' = "none"
    /\ req' = Undefined
    /\ aiContent' = NoText
    /\ res' = NoResponse
    /\ UNCHANGED <<env, lastRejected, locals, providerCalls, caught, exit>>

NextStrip ==
    \/ \E text \in StripTexts : StripOnce(text)
    \/ StripTwice
    \/ StripReset

SpecStrip == InitAnalytics /\ [][NextStrip]_vars

(* ------------------------------ claims -------------------------------- *)
GenerateDone == endpoint = "generate" /\ pc = "done"
SpeakDone == endpoint = "speak" /\ pc = "done"

\* The documents the provider text carries, as the provider wrote them.
PayloadDocs == {aiContent[i].d : i \in {j \in DOMAIN aiContent : aiContent[j].k = "doc"}}

\* The request ended in a failure response that carries no question.
Failed(status) ==
    /\ res.status = status
    /\ res.body.success = FALSE
    /\ "question" \notin DOMAIN res.body

\* C1: a provider payload that parses as JSON but whose options does not
\* have exactly 4 entries is rejected: the request never ends in a 200
\* response carrying that question.
C1_OptionsExactlyFour ==
    GenerateDone =>
        \A d \in PayloadDocs :
            LET o == Get(d, "options") IN
            (o.t = "arr" /\ Len(o.a) # 4) => res.status # 200

\* C2: every question returned in a 200 response has a correctIndex that is
\* an integer in 0..3.
C2_CorrectIndexInRange ==
    (GenerateDone /\ res.status = 200) =>
        LET ci == Get(res.body.question, "correctIndex") IN
        ci.t = "num" /\ ci.c \in {0, 100, 200, 300}

\* C3: whenever the request answers 200, the returned question carries all
\* seven GeneratedQuestion fields.
C3_NoPartialQuestion ==
    (GenerateDone /\ res.status = 200) =>
        /\ res.body.question.t = "obj"
        /\ QuestionFields \subseteq DOMAIN res.body.question.o

\* C4: a provider payload in which correctIndex is absent, or question is
\* absent or empty, or options is not an ordered sequence, is rejected with
\* status 500 and success false, and no question is returned.
LacksRequired(d) ==
    \/ d.t # "obj"
    \/ "correctIndex" \notin DOMAIN d.o
    \/ "question" \notin DOMAIN d.o
    \/ d.o["question"] = Str(<<>>)
    \/ "options" \notin DOMAIN d.o
    \/ d.o["options"].t # "arr"

C4_MissingRequiredRejected ==
    GenerateDone =>
        \A d \in PayloadDocs : LacksRequired(d) => Failed(500)

C4_Witness ==
    /\ GenerateDone
    /\ exit = "rejectedSchema"
    /\ \E d \in PayloadDocs :
          /\ d.t = "obj"
          /\ "correctIndex" \notin DOMAIN d.o
          /\ {"question", "options"} \subseteq DOMAIN d.o
          /\ d.o["question"] = Str(<<"Q">>)
          /\ d.o["options"].t = "arr"
    /\ Failed(500)

\* C5: the response to a rejected provider payload is the same whether the
\* payload was malformed JSON or well-formed but schema-invalid, and does
\* not depend on the provider text: any two rejected requests of the same
\* process get identical responses.
C5_RejectionUniform ==
    (GenerateDone /\ IsRejection(exit) /\ lastRejected.cause # "none") =>
        res = lastRejected.res

C5_Witness ==
    /\ GenerateDone
    /\ exit = "rejectedSchema"
    /\ lastRejected.cause = "rejectedSyntax"
    /\ res.status = 500

\* C6: the target difficulty is Hard when accuracy > 0.8 and streak >= 3,
\* otherwise Easy when accuracy < 0.5 or streak < 0, otherwise Medium, for
\* every accuracy in [0,1] including 0, an absent accuracy counting as 0.5
\* and an absent streak as 0.
ClaimedAccuracy(performance) ==
    IF performance.t = "obj" /\ "accuracy" \in DOMAIN performance.o
    THEN performance.o["accuracy"].c ELSE 50

ClaimedStreak(performance) ==
    IF performance.t = "obj" /\ "streak" \in DOMAIN performance.o
    THEN performance.o["streak"].c ELSE 0

ClaimedDifficulty(performance) ==
    IF ClaimedAccuracy(performance) > 80 /\ ClaimedStreak(performance) >= 300
    THEN "dificil"
    ELSE IF ClaimedAccuracy(performance) < 50 \/ ClaimedStreak(performance) < 0
    THEN "facil"
    ELSE "medio"

C6_DifficultyRule ==
    (endpoint = "generate" /\ targetDifficulty # "none") =>
        targetDifficulty = ClaimedDifficulty(req.performance)

\* C7: a generate request whose level or subject is missing is answered
\* with status 400 and no call to the completion provider is made for it,
\* whether or not the provider key is configured.
C7_MissingFieldNoProviderCall ==
    (endpoint = "generate" /\ (req.level.t = "undefined" \/ req.subject.t = "undefined")) =>
        /\ pc = "done"
        /\ res.status = 400
        /\ providerCalls = 0

C7_Witness ==
    /\ GenerateDone
    /\ req.subject.t = "undefined"
    /\ req.level = Str(<<"ESO">>)
    /\ Truthy(env.OPENROUTER_API_KEY)
    /\ res.status = 400
    /\ providerCalls = 0

\* C8: each generate request makes at most one call to the completion
\* provider; after a non-success provider status or a rejected payload the
\* request has ended in a 500 failure response without a further call.
C8_AtMostOneProviderCall ==
    endpoint = "generate" =>
        /\ providerCalls <= 1
        /\ (exit \in {"upstreamError", "rejectedSyntax", "rejectedSchema"}) =>
              (pc = "done" /\ Failed(500) /\ providerCalls = 1)

C8_Witness ==
    /\ GenerateDone
    /\ exit = "upstreamError"
    /\ providerCalls = 1
    /\ res.status = 500

\* C9 as stated: the speak endpoint answers every request, a missing text
\* included, with status 200.
C9_AlwaysStatus200 ==
    SpeakDone => res.status = 200

\* C9 amended: a speak request without a text (absent, or a falsy value:
\* null, the empty string, 0, false) is answered with status 400; every
\* other request is answered with status
\* 200, and every failure path (no key, provider non-success, exception)
\* produces the fallback audioUrl null, useNativeSpeech true.
TextGiven == req.text \notin {Undefined, Null, Str(<<>>), Num(0), Bool(FALSE)}

C9_FallbackUnlessTextMissing ==
    SpeakDone =>
        IF TextGiven
        THEN /\ res.status = 200
             /\ res.body.success = TRUE
             /\ (exit # "accepted") =>
                    (res.body.audioUrl = Null /\ res.body.useNativeSpeech = TRUE)
        ELSE res.status = 400 /\ res.body.success = FALSE

C9_Witness ==
    /\ SpeakDone
    /\ TextGiven
    /\ exit = "catch"
    /\ caught = NetworkError
    /\ res.status = 200
    /\ res.body.useNativeSpeech = TRUE

\* C10: when the generate request fails with status 500 and the environment
\* flag is production, no field of the body carries the text of the caught
\* exception.
C10_NoExceptionTextInProduction ==
    (GenerateDone /\ res.status = 500 /\ caught # NoError
        /\ env.NODE_ENV = "production") =>
        /\ res.body.error # caught.message
        /\ res.body.details = NoValue

(* ------------------------ claims on analytics ------------------------- *)
AnalyticsDone == endpoint = "analytics" /\ pc = "done"

NonEmptyHistory == req.history.t = "arr" /\ req.history.a # <<>>

\* The records of the request, none when the history is absent.
GivenHistory == IF req.history.t = "arr" THEN req.history.a ELSE <<>>

Abs(x) == IF x < 0 THEN -x ELSE x

\* value is an integer nearest to num / den.
Nearest(value, num, den) == 2 * Abs(num - value * den) <= den

RecordsCorrect(h) == {i \in DOMAIN h : "correct" \in DOMAIN h[i].o /\ h[i].o["correct"] = Bool(TRUE)}

\* C11: for every non-empty history, totalQuestions is the number of
\* records, correct is the number of records answered correctly, correct +
\* incorrect = totalQuestions and accuracy is 100*correct/totalQuestions
\* rounded to the nearest integer.
C11_CountsAndAccuracy ==
    (AnalyticsDone /\ NonEmptyHistory) =>
        /\ res.status = 200
        /\ LET a == res.body.analytics
               h == GivenHistory
           IN  /\ a.totalQuestions = Len(h)
               /\ a.correct = Cardinality(RecordsCorrect(h))
               /\ a.correct + a.incorrect = a.totalQuestions
               /\ Nearest(a.accuracy, 100 * Cardinality(RecordsCorrect(h)), Len(h))

\* C12: for every non-empty history, currentStreak is the length of the
\* longest suffix of the history made of correct records only.
CorrectSuffixes(h) ==
    {k \in 0 .. Len(h) : \A i \in (Len(h) - k + 1) .. Len(h) : i \in RecordsCorrect(h)}

C12_CurrentStreak ==
    (AnalyticsDone /\ NonEmptyHistory) =>
        /\ res.status = 200
        /\ res.body.analytics.currentStreak \in CorrectSuffixes(GivenHistory)
        /\ \A k \in CorrectSuffixes(GivenHistory) : k <= res.body.analytics.currentStreak

\* C13: for every non-empty history of n records, learningCurve has
\* min(n,10) entries, entry k carries position k and describes record
\* n - min(n,10) + k, with correct in {0,1}.
C13_LearningCurve ==
    (AnalyticsDone /\ NonEmptyHistory) =>
        /\ res.status = 200
        /\ LET h == GivenHistory
               n == Len(h)
               m == IF n < 10 THEN n ELSE 10
               curve == res.body.analytics.learningCurve
           IN  /\ Len(curve) = m
               /\ \A k \in 1 .. m :
                     /\ curve[k].question = k
                     /\ curve[k].correct \in {0, 1}
                     /\ (curve[k].correct = 1) <=> ((n - m + k) \in RecordsCorrect(h))
                     /\ curve[k].difficulty = Get(h[n - m + k], "difficulty")

\* C14: in the analytics summary a tier is in strengthAreas exactly when it
\* has at least one attempt and accuracy >= 75%, in improvementAreas exactly
\* when it has at least one attempt and accuracy < 50%; no tier is in both.
\* A record without a difficulty is an attempt at the medium tier.
Attempts(h, tier) ==
    {i \in DOMAIN h :
        IF "difficulty" \in DOMAIN h[i].o THEN h[i].o["difficulty"] = Str(<<tier>>)
        ELSE tier = "medio"}

Levels_(areas) == {areas[i].level : i \in DOMAIN areas}

C14_StrengthAndImprovement ==
    (AnalyticsDone /\ res.status = 200) =>
        LET h == GivenHistory
            a == res.body.analytics
        IN  \A tier \in {"facil", "medio", "dificil"} :
                LET tries == Cardinality(Attempts(h, tier))
                    good == Cardinality(Attempts(h, tier) \cap RecordsCorrect(h))
                IN  /\ (tier \in Levels_(a.strengthAreas)) <=>
                           (tries >= 1 /\ 100 * good >= 75 * tries)
                    /\ (tier \in Levels_(a.improvementAreas)) <=>
                           (tries >= 1 /\ 100 * good < 50 * tries)
                    /\ ~(tier \in Levels_(a.strengthAreas)
                         /\ tier \in Levels_(a.improvementAreas))

\* A tier at exactly 75% is a strength while another at exactly 50% is in
\* neither list.
C14_Witness ==
    /\ AnalyticsDone
    /\ res.status = 200
    /\ LET h == GivenHistory
           a == res.body.analytics
       IN  /\ \E tier \in {"facil", "medio", "dificil"} :
                 /\ Cardinality(Attempts(h, tier)) = 4
                 /\ Cardinality(Attempts(h, tier) \cap RecordsCorrect(h)) = 3
                 /\ tier \in Levels_(a.strengthAreas)
           /\ \E tier \in {"facil", "medio", "dificil"} :
                 /\ Cardinality(Attempts(h, tier)) >= 1
                 /\ 2 * Cardinality(Attempts(h, tier) \cap RecordsCorrect(h))
                        = Cardinality(Attempts(h, tier))
                 /\ tier \notin Levels_(a.strengthAreas)
                 /\ tier \notin Levels_(a.improvementAreas)

\* C15: for every non-empty history, one holding a record of unrecognized
\* difficulty included, the summary's average difficulty is the mean of the
\* weights Easy=1, Medium=2, Hard=3, an unrecognized difficulty weighing 2
\* (to one decimal place).
ClaimedWeight(q) ==
    IF "difficulty" \notin DOMAIN q.o THEN 2
    ELSE CASE q.o["difficulty"] = Str(<<"facil">>) -> 1
           [] q.o["difficulty"] = Str(<<"dificil">>) -> 3
           [] OTHER -> 2

RECURSIVE ClaimedWeightSum(_)
ClaimedWeightSum(h) ==
    IF h = <<>> THEN 0 ELSE ClaimedWeight(Head(h)) + ClaimedWeightSum(Tail(h))

C15_AverageDifficulty ==
    (AnalyticsDone /\ NonEmptyHistory) =>
        /\ res.status = 200
        /\ res.body.analytics.averageDifficulty.t = "fixed1"
        /\ Nearest(res.body.analytics.averageDifficulty.tenths,
                   10 * ClaimedWeightSum(GivenHistory), Len(GivenHistory))

\* C16: an empty or absent history is answered 200 with the empty-state
\* summary, on the path that returns before any division.
C16_EmptyHistory ==
    (AnalyticsDone /\ req.history \in {Undefined, Null, Arr(<<>>)}) =>
        /\ res.status = 200
        /\ res.body.success = TRUE
        /\ exit = "emptyHistory"
        /\ res.body.analytics.totalQuestions = 0
        /\ res.body.analytics.accuracy = 0
        /\ res.body.analytics.averageDifficulty = Num(0)
        /\ res.body.analytics.strengthAreas = <<>>
        /\ res.body.analytics.improvementAreas = <<>>
        /\ res.body.analytics.learningCurve = <<>>

C16_Witness ==
    /\ AnalyticsDone
    /\ req.history = Undefined
    /\ res.status = 200
    /\ res.body.analytics.totalQuestions = 0

\* The claims C11, C12, C13 and C15 on the histories whose difficulties are
\* all recognized or absent.
AllKnown == \A i \in DOMAIN GivenHistory : KnownDiff(DiffOf(GivenHistory[i]))

KnownHistoriesSummarised ==
    (AnalyticsDone /\ NonEmptyHistory /\ AllKnown) =>
        /\ C11_CountsAndAccuracy
        /\ C12_CurrentStreak
        /\ C13_LearningCurve
        /\ C15_AverageDifficulty

(* ------------------- claims on the generate response ------------------ *)
\* C17: the adaptive rationale of a 200 response follows the target
\* difficulty: the raising rationale exactly when it is Hard, the lowering
\* rationale exactly when it is Easy, the stable rationale exactly when it
\* is Medium.
C17_ReasonFollowsDifficulty ==
    (GenerateDone /\ res.status = 200) =>
        LET m == res.body.metadata IN
        /\ (m.adaptiveReason = "Alto rendimiento - aumentando dificultad")
               <=> (m.targetDifficulty = "dificil")
        /\ (m.adaptiveReason = "Bajo rendimiento - reduciendo dificultad")
               <=> (m.targetDifficulty = "facil")
        /\ (m.adaptiveReason = "Rendimiento estable - manteniendo nivel")
               <=> (m.targetDifficulty = "medio")

\* C19: a well-formed payload with all required fields is accepted and
\* returned field for field whether it is unfenced, fenced, fenced with a
\* language tag (any tag) or has an opening fence and no closing fence, for
\* every field value, strings holding a fence marker included.
WellFormedPayload(d) ==
    /\ d.t = "obj"
    /\ QuestionFields \subseteq DOMAIN d.o
    /\ d.o["question"].t = "str" /\ d.o["question"].s # <<>>
    /\ d.o["options"].t = "arr" /\ Len(d.o["options"].a) = 4
    /\ d.o["correctIndex"].t = "num" /\ d.o["correctIndex"].c \in {0, 100, 200, 300}

FencedForms(d) ==
    {<<DocTok(d)>>,
     <<Fence, Nl, DocTok(d), Nl, Fence>>,
     <<Fence, Nl, DocTok(d)>>}
    \cup UNION {{<<Fence, Tag(tag), Nl, DocTok(d), Nl, Fence>>,
                 <<Fence, Tag(tag), Nl, DocTok(d)>>} : tag \in {"json", "js"}}

C19_FencedPayloadAccepted ==
    GenerateDone =>
        \A d \in PayloadDocs :
            (WellFormedPayload(d) /\ aiContent \in FencedForms(d)) =>
                (res.status = 200 /\ res.body.question = d)

(* ---------------------- claims on recent topics ----------------------- *)
TopicsBuilt == endpoint = "topics" /\ pc = "built"

GivenRecords == IF req.questionHistory.t = "arr" THEN req.questionHistory.a ELSE <<>>

HasTopic(q) == "topic" \in DOMAIN q.o /\ q.o["topic"].t = "str" /\ q.o["topic"].s # <<>>

\* The k-th smallest member of a set of indices.
Kth(indices, k) == CHOOSE i \in indices : Cardinality({j \in indices : j <= i}) = k

\* text is the comma-joined list of the topics of the records at indices,
\* in the order of the history.
ListsTopics(text, h, indices) ==
    LET m == Cardinality(indices) IN
    /\ Len(text) = IF m = 0 THEN 0 ELSE 2 * m - 1
    /\ \A k \in 1 .. m : <<text[2 * k - 1]>> = h[Kth(indices, k)].o["topic"].s
    /\ \A k \in 1 .. (m - 1) : text[2 * k] = ", "

\* C18 as stated: the string lists the last 5 topics of the history, the
\* records with no topic skipped: min(5, t) topics when t records have one.
C18_LastFiveTopics ==
    TopicsBuilt =>
        LET h == GivenRecords
            withTopic == {i \in DOMAIN h : HasTopic(h[i])}
            t == Cardinality(withTopic)
            lastFive == {i \in withTopic : Cardinality({j \in withTopic : j >= i}) <= 5}
        IN  ListsTopics(res, h, lastFive)

\* C18 amended: the string lists, comma-joined and in original order, the
\* topics of the last 5 records of the history, the records with no topic
\* among those 5 skipped; it is empty when the history is empty or absent.
C18_TopicsOfLastFiveRecords ==
    TopicsBuilt =>
        LET h == GivenRecords
            window == {i \in DOMAIN h : i > Len(h) - 5}
        IN  ListsTopics(res, h, {i \in window : HasTopic(h[i])})

C18_Witness ==
    /\ TopicsBuilt
    /\ Len(GivenRecords) = 7
    /\ HasTopic(GivenRecords[1]) /\ HasTopic(GivenRecords[2])
    /\ ~HasTopic(GivenRecords[4])
    /\ Len(res) = 7

(* ---------------------- claims on fence stripping --------------------- *)
\* C20: fence-stripping is idempotent: applying the strip step to its own
\* output returns that output unchanged.
C20_StripIdempotent ==
    (endpoint = "strip" /\ pc = "twice") => res = aiContent

\* A text with two fences and a stray backtick, stripped to something.
C20_Witness ==
    /\ endpoint = "strip" /\ pc = "twice"
    /\ Cardinality({i \in DOMAIN req : req[i].k = "fence"}) = 2
    /\ \E i \in DOMAIN req : req[i].k = "tick"
    /\ aiContent # <<>>
    /\ aiContent # req
    /\ res = aiContent

=============================================================================
